---- MODULE Spec2Model ----
(***************************************************************************)
(* Model of the user-account service: the HTTP handlers of the auth and    *)
(* user controllers, AuthService, UserService, UserRepository (the users   *)
(* table with its unique email constraint), the JWT sign / verify pair and *)
(* the cached Kafka producer.  Every handler is cut at its awaits on the   *)
(* store, the hasher and the bus, so that concurrent requests interleave   *)
(* exactly where the Node event loop lets them interleave.                 *)
(***************************************************************************)
EXTENDS Integers, Sequences, FiniteSets, Bags, TLC

\* ------------------------------------------------------------------ bounds
\* rows the serial id of the users table may hand out
MaxUsers == 2
\* HTTP requests started in one behaviour
MaxRequests == 4
\* producers kafka.producer() may create in one behaviour
MaxProducers == 2
\* clock steps (each of TokenLifetime seconds) in the service behaviours
MaxTicks == 1
\* SIGTERM / SIGINT signals sent to the process
MaxSignals == 2

\* ------------------------------------------------------- program constants
\* jwt.sign(..., { expiresIn: '1h' }): lifetime in seconds
TokenLifetime == 3600
\* bcrypt.hash(..., 10): cost factor
SaltRounds == 10
\* the secret the App is constructed with, and any other secret
JwtSecret == <<"k", "1">>
OtherSecret == <<"k", "2">>

\* setTimeout(..., 10000) of shutdown: the forced exit, in seconds
ForceExitDelay == 10

\* the two request slots that run concurrently
Slots == {1, 2}

\* ---------------------------------------------------------------- strings
\* A JavaScript string that the code parses or searches is a sequence of
\* one-character (ids) or one-word (messages) strings.
Digits == <<"0", "1", "2", "3", "4", "5", "6", "7", "8", "9">>

IsDigit(c) == \E d \in 1..10 : Digits[d] = c

DigitVal(c) == (CHOOSE d \in 1..10 : Digits[d] = c) - 1

\* Number.prototype.toString() of a non-negative integer
RECURSIVE ToStr(_)
ToStr(n) == IF n < 10 THEN <<Digits[n + 1]>>
            ELSE ToStr(n \div 10) \o <<Digits[(n % 10) + 1]>>

\* parseInt(s, 10): the longest prefix of decimal digits; NaN (here -1) when
\* that prefix is empty
NaN == -1

RECURSIVE ParsePrefix(_, _, _)
ParsePrefix(s, i, acc) ==
    IF i > Len(s) \/ ~IsDigit(s[i]) THEN acc
    ELSE ParsePrefix(s, i + 1, acc * 10 + DigitVal(s[i]))

parseInt(s) == IF Len(s) = 0 \/ ~IsDigit(s[1]) THEN NaN ELSE ParsePrefix(s, 1, 0)

\* String.prototype.trim on character sequences
IsSpace(c) == c \in {" ", "\t", "\n"}

RECURSIVE TrimStart(_)
TrimStart(s) == IF Len(s) > 0 /\ IsSpace(Head(s)) THEN TrimStart(Tail(s)) ELSE s

RECURSIVE TrimEnd(_)
TrimEnd(s) == IF Len(s) > 0 /\ IsSpace(s[Len(s)]) THEN TrimEnd(SubSeq(s, 1, Len(s) - 1)) ELSE s

Trim(s) == TrimEnd(TrimStart(s))

\* String.prototype.includes on word sequences
Includes(msg, needle) ==
    \E i \in 0..(Len(msg) - Len(needle)) :
        \A j \in 1..Len(needle) : msg[i + j] = needle[j]

\* --------------------------------------------------------------- messages
MsgEmailInUse == <<"Email", "already", "in", "use">>
MsgProvision == <<"provision", "user">>
MsgRequiredRegister == <<"Username,", "email,", "and", "passwordhash", "are", "required">>
MsgRequiredLogin == <<"Email", "and", "password", "are", "required">>
MsgInvalidCredentials == <<"Invalid", "credentials">>
MsgInternal == <<"Internal", "server", "error">>
MsgInternalLogin == <<"Internal", "server", "error", "during", "login">>
MsgUnauthorized == <<"Unauthorized">>
MsgUnauthorizedNoId == <<"Unauthorized,", "user", "ID", "missing.">>
MsgNotFound == <<"User", "not", "found">>
MsgNone == <<>>
ConstraintName == <<"users_email_key">>

\* The messages a unique violation of the users table carries: the ORM's
\* own text for a violation it could attribute to a field, or the text of the
\* database error, which names the constraint.
UniqueViolationMessages ==
    { <<"Validation", "error">>,
      <<"duplicate", "key", "value", "violates", "unique", "constraint", "users_email_key">> }

\* ----------------------------------------------------------------- values
\* a field a request body does not carry (undefined)
Absent == "<undefined>"
Usernames == {"alice", "bob"}
Emails == {"a@x.com", "b@x.com"}
\* plaintext passwords a client may send; "" is the empty string
Passwords == {"pw1", "pw2", ""}
\* salts bcrypt may draw
Salts == {"saltA", "saltB"}

\* JavaScript truthiness of a string-valued field
Truthy(s) == s # Absent /\ s # ""

\* ----------------------------------------------------------------- hasher
\* a stored passwordhash column value that is not a bcrypt hash
RawHash(s) == [alg |-> "raw", cost |-> 0, salt |-> "", text |-> s]

\* bcrypt.hash(plain, SaltRounds) with the salt it drew
BcryptHash(plain, salt) == [alg |-> "bcrypt", cost |-> SaltRounds, salt |-> salt, text |-> plain]

\* bcrypt.compare(plain, stored): re-hash with the stored salt and cost and
\* compare; false for a stored value that is not a bcrypt hash
BcryptCompare(plain, stored) ==
    /\ stored.alg = "bcrypt"
    /\ [alg |-> "bcrypt", cost |-> stored.cost, salt |-> stored.salt, text |-> plain] = stored

\* ------------------------------------------------------------------ tokens
\* a sign that ignores the secret it is given
JwtSignWrongKey(userId, secret, t) ==
    [typ |-> "jwt", userId |-> userId, iat |-> t, exp |-> t + TokenLifetime, key |-> OtherSecret]

\* jwt.sign({ userId }, secret, { expiresIn: '1h' }) at clock t
JwtSign(userId, secret, t) ==
    [typ |-> "jwt", userId |-> userId, iat |-> t, exp |-> t + TokenLifetime, key |-> secret]

\* token strings that are not JWTs
EmptyToken == [typ |-> "empty", userId |-> <<>>, iat |-> 0, exp |-> 0, key |-> <<>>]
GarbageToken == [typ |-> "garbage", userId |-> <<>>, iat |-> 0, exp |-> 0, key |-> <<>>]

\* the null result of verifyToken
Null == [isNull |-> TRUE, userId |-> <<>>, iat |-> 0, exp |-> 0]

\* a jwt.verify that ignores the expiry claim
JwtVerifyIgnoreExpiration(token, secret, t) ==
    IF token.typ = "empty" THEN [kind |-> "throw", error |-> "JsonWebTokenError: jwt must be provided", value |-> Null]
    ELSE IF token.typ # "jwt" THEN [kind |-> "throw", error |-> "JsonWebTokenError: jwt malformed", value |-> Null]
    ELSE IF token.key # secret THEN [kind |-> "throw", error |-> "JsonWebTokenError: invalid signature", value |-> Null]
    ELSE [kind |-> "return", error |-> "",
          value |-> [isNull |-> FALSE, userId |-> token.userId, iat |-> token.iat, exp |-> token.exp]]

\* jwt.verify(token, secret) at clock t: either returns the payload or throws
JwtVerify(token, secret, t) ==
    IF token.typ = "empty" THEN [kind |-> "throw", error |-> "JsonWebTokenError: jwt must be provided", value |-> Null]
    ELSE IF token.typ # "jwt" THEN [kind |-> "throw", error |-> "JsonWebTokenError: jwt malformed", value |-> Null]
    ELSE IF token.key # secret THEN [kind |-> "throw", error |-> "JsonWebTokenError: invalid signature", value |-> Null]
    ELSE IF t >= token.exp THEN [kind |-> "throw", error |-> "TokenExpiredError: jwt expired", value |-> Null]
    ELSE [kind |-> "return", error |-> "",
          value |-> [isNull |-> FALSE, userId |-> token.userId, iat |-> token.iat, exp |-> token.exp]]

\* verifyToken without its try / catch
verifyTokenNoCatch(token, secret, t) == JwtVerify(token, secret, t)

\* AuthService.verifyToken: the try / catch around jwt.verify
verifyToken(token, secret, t) ==
    LET r == JwtVerify(token, secret, t)
    IN  IF r.kind = "throw" THEN [kind |-> "return", error |-> "", value |-> Null]
        ELSE r

\* -------------------------------------------------------------- the store
\* the undefined result of a repository lookup (a date that is not there is -1)
UndefinedUser ==
    [id |-> <<>>, username |-> "", email |-> "", passwordhash |-> RawHash(""),
     createdAt |-> -1, updatedAt |-> -1]

\* UserRepository.toExternalUser: the row's fields, timestamps included, with
\* its numeric id as a string
toExternalUser(row) ==
    [id |-> ToStr(row.id), username |-> row.username, email |-> row.email,
     passwordhash |-> row.passwordhash,
     createdAt |-> row.createdAt, updatedAt |-> row.updatedAt]

\* UserRepository.toExternalUserOptional over the rows a query selected
toExternalUserOptional(rows) ==
    IF rows = {} THEN UndefinedUser ELSE toExternalUser(CHOOSE r \in rows : TRUE)

\* UserModel.findByPk
findByPk(table, numericId) == {r \in table : r.id = numericId}

\* UserModel.findOne({ where: { email } })
findOneByEmail(table, email) == {r \in table : r.email = email}

\* a users table without its unique index
NoUniqueIndex(table, selfId, email) == FALSE

\* the unique index users_email_key, as the table sees an insert or an update
\* of row selfId to email
ViolatesUnique(table, selfId, email) == \E r \in table : r.id # selfId /\ r.email = email

\* ------------------------------------------------------------------ state
VARIABLES
    users,                \* the rows of the users table
    nextId,               \* the serial behind users.id
    req,                  \* the request each slot is handling, with its locals
    started,              \* requests started so far
    now,                  \* the clock, in seconds
    producer,             \* kafka/producer.ts: the cached producer, 0 for null
    isProducerConnected,  \* kafka/producer.ts: the connected flag
    producersCreated,     \* producers kafka.producer() has created
    listening,            \* producers with a 'producer.disconnect' callback, still connected
    events,               \* the bag of records handed to producer.send
    issued,               \* tokens login has returned
    pwChange,             \* per user id: the last completed password change
    registered,           \* per user id: the username register returned, and
                          \* whether the row was renamed or deleted since,
                          \* and whether a deleteUser of it returned true
    trial,                \* a token put to verifyToken and the middleware
    proc                  \* index.ts: the process, from its start to its exit

vars == <<users, nextId, req, started, now, producer, isProducerConnected,
          producersCreated, listening, events, issued, pwChange, registered, trial, proc>>

storeVars == <<users, nextId>>
kafkaVars == <<producer, isProducerConnected, producersCreated, listening>>

\* a body field the response does not carry
NoHashField == [alg |-> "absent", cost |-> 0, salt |-> "", text |-> ""]
NoBodyUser ==
    [id |-> <<>>, username |-> "", email |-> "", passwordhash |-> NoHashField,
     createdAt |-> -1, updatedAt |-> -1]
NoResponse ==
    [status |-> 0, message |-> MsgNone, user |-> NoBodyUser, list |-> {}, token |-> EmptyToken]

\* no password change on record for a user id
NoChange == [confirmed |-> FALSE, old |-> Absent, new |-> Absent, by |-> 0]

\* no registration on record for a user id
NotRegistered == [username |-> "", touched |-> FALSE, deleted |-> FALSE]

\* the kinds of token a client may present
TokenClasses == {"empty", "garbage", "forged", "expired", "valid"}

\* no verdict yet on a class of token
NoVerdict == [kind |-> "", value |-> Null, response |-> NoResponse, subject |-> <<>>]

\* no token on trial
NoTrial ==
    [class |-> "none", subject |-> <<>>, signedAt |-> 0, token |-> EmptyToken,
     verdicts |-> [c \in TokenClasses |-> NoVerdict]]

\* process.env.JWT_SECRET: not set, or a string of characters
UndefinedEnv == [defined |-> FALSE, chars |-> <<>>]
EnvString(chars) == [defined |-> TRUE, chars |-> chars]

\* the process once startServer has run through: the App constructed with
\* the secret, the server listening, the signal handlers registered
ListeningProcess ==
    [phase |-> "listening", env |-> EnvString(JwtSecret), exitCode |-> -1,
     newProducer |-> 0, server |-> "listening",
     signals |-> 0, deadline |-> -1, producerStop |-> "none"]

\* AuthService's this.jwtSecret: the string the App was constructed with
thisJwtSecret == proc.env.chars

IdleRequest ==
    [op |-> "none", pc |-> "idle",
     username |-> Absent, email |-> Absent, password |-> Absent,
     pathId |-> <<>>, userId |-> <<>>,
     user |-> UndefinedUser, hashed |-> RawHash(""), newProducer |-> 0,
     scheme |-> "", token |-> EmptyToken, fresh |-> FALSE,
     created |-> FALSE, publish |-> "none", sends |-> 0, note |-> "", expect |-> "",
     resp |-> NoResponse]

\* res.status(code).json({ message }) and friends
\* (the handler's locals die with it; what stays on record is the request's
\* operation, target and subject, and what it did)
Respond(r, status, message, user, token) ==
    [IdleRequest EXCEPT
        !.op = r.op, !.pc = "done", !.email = r.email, !.pathId = r.pathId, !.userId = r.userId,
        !.created = r.created, !.publish = r.publish, !.sends = r.sends, !.note = r.note,
        !.expect = r.expect, !.scheme = r.scheme, !.token = r.token, !.fresh = r.fresh,
        !.resp = [status |-> status, message |-> message, user |-> user, list |-> {},
                  token |-> token]]

RespondMessage(r, status, message) == Respond(r, status, message, NoBodyUser, EmptyToken)

\* a new request takes the lowest slot that is not handling one
Free(p) ==
    /\ started < MaxRequests
    /\ req[p].pc \in {"idle", "done"}
    /\ \A q \in Slots : q < p => req[q].pc \notin {"idle", "done"}

NewRequest(op, pc) == [IdleRequest EXCEPT !.op = op, !.pc = pc]

\* The service listening on an empty users table, before any request, with no
\* producer in the cache: the producer of its start has disconnected.
Init ==
    /\ users = {}
    /\ nextId = 1
    /\ req = [p \in Slots |-> IdleRequest]
    /\ started = 0
    /\ now = 0
    /\ producer = 0
    /\ isProducerConnected = FALSE
    /\ producersCreated = 0
    /\ listening = {}
    /\ events = EmptyBag
    /\ issued = {}
    /\ pwChange = [i \in 1..MaxUsers |-> NoChange]
    /\ registered = [i \in 1..MaxUsers |-> NotRegistered]
    /\ trial = NoTrial
    /\ proc = ListeningProcess

\* ------------------------------------------------- UserService.sendUserEvent
\* The event a handler builds for sendUserEvent
UserEvent(type, userId, username, email) ==
    [eventType |-> type, userId |-> userId, username |-> username, email |-> email]

\* The response the controller gives once the service call has returned
\* (what the handler does after `await this.sendUserEvent(...)`).
AfterPublish(r) ==
    CASE r.op = "register" ->
            Respond(r, 201, MsgNone,
                    [id |-> r.user.id, username |-> r.user.username, email |-> r.user.email,
                     passwordhash |-> NoHashField, createdAt |-> -1, updatedAt |-> -1],
                    EmptyToken)
      [] r.op = "updateUser" -> Respond(r, 200, MsgNone, r.user, EmptyToken)
      [] r.op = "updateUserPassword" -> RespondMessage(r, 204, MsgNone)
      [] r.op = "deleteUser" -> RespondMessage(r, 204, MsgNone)

\* sendUserEvent without its catch: the failure escapes to the handler, whose
\* own catch answers 500
sendUserEventRethrow(r, failure) ==
    RespondMessage([r EXCEPT !.publish = failure], 500, MsgInternal)

\* sendUserEvent's catch: a failure of getKafkaProducer or of producer.send
\* is logged and sendUserEvent returns normally.
sendUserEventCatch(r, failure) == AfterPublish([r EXCEPT !.publish = failure])

\* events that name the subject of the request's token as their user
EventOfSubject(r) ==
    CASE r.op = "register" -> UserEvent("UserCreated", r.user.id, r.user.username, r.user.email)
      [] r.op = "deleteUser" -> UserEvent("UserDeleted", r.userId, r.user.username, r.user.email)
      [] OTHER -> UserEvent("UserUpdated", r.user.id, r.user.username, r.user.email)

\* The event of the request in slot p, from its locals
EventOf(r) ==
    CASE r.op = "register" -> UserEvent("UserCreated", r.user.id, r.user.username, r.user.email)
      [] r.op = "deleteUser" -> UserEvent("UserDeleted", r.pathId, r.user.username, r.user.email)
      [] OTHER -> UserEvent("UserUpdated", r.user.id, r.user.username, r.user.email)

\* The record of password changes once slot p holds r: a 204 to the password
\* change that wrote last completes that change.
ChangeAfterResponse(p, r) ==
    IF r.pc = "done" /\ r.op = "updateUserPassword" /\ r.resp.status = 204
       /\ parseInt(r.pathId) \in DOMAIN pwChange
       /\ pwChange[parseInt(r.pathId)].by = p
    THEN [pwChange EXCEPT ![parseInt(r.pathId)].confirmed = TRUE]
    ELSE pwChange

\* sendUserEvent up to its first suspension: getKafkaProducer returns the
\* cached producer (and producer.send is called on it), or creates a new
\* producer and starts its connect.
PublishStart(p) ==
    /\ req[p].pc = "ev_get"
    /\ IF producer # 0 /\ isProducerConnected
       THEN /\ req' = [req EXCEPT ![p].pc = "ev_sending", ![p].sends = @ + 1]
            /\ events' = events (+) SetToBag({EventOf(req[p])})
            /\ UNCHANGED producersCreated
       ELSE /\ producersCreated < MaxProducers
            /\ producersCreated' = producersCreated + 1
            /\ req' = [req EXCEPT ![p].pc = "ev_connecting", ![p].newProducer = producersCreated + 1]
            /\ UNCHANGED events
    /\ UNCHANGED <<users, nextId, started, now, producer, isProducerConnected, listening, issued, pwChange, registered, trial, proc>>

\* newProducer.connect() resolves: the producer is cached, the disconnect
\* callback registered, and producer.send is called.
ConnectOk(p) ==
    /\ req[p].pc = "ev_connecting"
    /\ producer' = req[p].newProducer
    /\ isProducerConnected' = TRUE
    /\ listening' = listening \cup {req[p].newProducer}
    /\ req' = [req EXCEPT ![p].pc = "ev_sending", ![p].sends = @ + 1]
    /\ events' = events (+) SetToBag({EventOf(req[p])})
    /\ UNCHANGED <<users, nextId, started, now, producersCreated, issued, pwChange, registered, trial, proc>>

\* a catch that clears the flag and keeps the cached producer
ConnectFailKeepsProducer(p) ==
    /\ req[p].pc = "ev_connecting"
    /\ producer' = producer
    /\ isProducerConnected' = FALSE
    /\ req' = [req EXCEPT ![p] = sendUserEventCatch(req[p], "connectFailed")]
    /\ pwChange' = ChangeAfterResponse(p, sendUserEventCatch(req[p], "connectFailed"))
    /\ UNCHANGED <<users, nextId, started, now, producersCreated, listening, events, issued, registered, trial, proc>>

\* newProducer.connect() rejects: the cache is cleared, the error rethrown
\* and caught by sendUserEvent.
ConnectFail(p) ==
    /\ req[p].pc = "ev_connecting"
    /\ producer' = 0
    /\ isProducerConnected' = FALSE
    /\ req' = [req EXCEPT ![p] = sendUserEventCatch(req[p], "connectFailed")]
    /\ pwChange' = ChangeAfterResponse(p, sendUserEventCatch(req[p], "connectFailed"))
    /\ UNCHANGED <<users, nextId, started, now, producersCreated, listening, events, issued, registered, trial, proc>>

\* producer.send resolves
SendOk(p) ==
    /\ req[p].pc = "ev_sending"
    /\ req' = [req EXCEPT ![p] = AfterPublish([req[p] EXCEPT !.publish = "sent"])]
    /\ pwChange' = ChangeAfterResponse(p, AfterPublish([req[p] EXCEPT !.publish = "sent"]))
    /\ UNCHANGED <<users, nextId, started, now, producer, isProducerConnected,
                   producersCreated, listening, events, issued, registered, trial, proc>>

\* a sendUserEvent that goes back to getKafkaProducer when producer.send rejects
SendFailRetries(p) ==
    /\ req[p].pc = "ev_sending"
    /\ req' = [req EXCEPT ![p].pc = "ev_get", ![p].publish = "sendFailed"]
    /\ UNCHANGED <<users, nextId, started, now, producer, isProducerConnected, producersCreated,
                   listening, events, issued, pwChange, registered, trial, proc>>

\* producer.send rejects
SendFail(p) ==
    /\ req[p].pc = "ev_sending"
    /\ req' = [req EXCEPT ![p] = sendUserEventCatch(req[p], "sendFailed")]
    /\ pwChange' = ChangeAfterResponse(p, sendUserEventCatch(req[p], "sendFailed"))
    /\ UNCHANGED <<users, nextId, started, now, producer, isProducerConnected,
                   producersCreated, listening, events, issued, registered, trial, proc>>

\* a disconnect callback that clears the flag and keeps the producer
OnProducerDisconnectKeepsProducer(q) ==
    /\ q \in listening
    /\ listening' = listening \ {q}
    /\ isProducerConnected' = FALSE
    /\ producer' = producer
    /\ UNCHANGED <<users, nextId, req, started, now, producersCreated, events, issued, pwChange, registered, trial, proc>>

\* the 'producer.disconnect' callback of a connected producer
OnProducerDisconnect(q) ==
    /\ q \in listening
    /\ listening' = listening \ {q}
    /\ isProducerConnected' = FALSE
    /\ producer' = 0
    /\ UNCHANGED <<users, nextId, req, started, now, producersCreated, events, issued, pwChange, registered, trial, proc>>

\* ---------------------------------------------------------------- register
\* a catch block that answers every failure alike
RegisterCatchAll(r, message) == RespondMessage(r, 500, MsgInternal)

\* AuthController.register's catch block
RegisterCatch(r, message) ==
    IF Includes(message, MsgEmailInUse) \/ Includes(message, MsgProvision)
    THEN RespondMessage(r, 400, message)
    ELSE RespondMessage(r, 500, MsgInternal)

\* UserRepository.createUser's catch block: the error it rethrows for a
\* unique violation whose message is m
CreateUserCatch(m) ==
    IF Includes(m, ConstraintName) THEN MsgEmailInUse
    ELSE <<"Database", "error:">> \o m

\* POST /auth/register up to the first await: the controller's field check
RegisterStart(p, username, email, password) ==
    /\ Free(p)
    /\ LET r == [NewRequest("register", "reg_find") EXCEPT
                    !.username = username, !.email = email, !.password = password,
                    !.note = IF findOneByEmail(users, email) = {} THEN "free" ELSE "taken"]
       IN  req' = [req EXCEPT ![p] =
                IF ~Truthy(username) \/ ~Truthy(email) \/ ~Truthy(password)
                THEN RespondMessage([r EXCEPT !.note = "missingFields"], 400, MsgRequiredRegister)
                ELSE r]
    /\ started' = started + 1
    /\ UNCHANGED <<users, nextId, now, producer, isProducerConnected, producersCreated,
                   listening, events, issued, pwChange, registered, trial, proc>>

\* UserService.createUser: the findUserByEmail pre-check
RegisterFind(p) ==
    /\ req[p].pc = "reg_find"
    /\ LET existingUser == toExternalUserOptional(findOneByEmail(users, req[p].email))
       IN  req' = [req EXCEPT ![p] =
                IF existingUser # UndefinedUser
                THEN RegisterCatch(req[p], MsgEmailInUse)
                ELSE [req[p] EXCEPT !.pc = "reg_hash"]]
    /\ UNCHANGED <<users, nextId, started, now, producer, isProducerConnected,
                   producersCreated, listening, events, issued, pwChange, registered, trial, proc>>

\* UserService.createUser: bcrypt.hash of the supplied password
RegisterHash(p, salt) ==
    /\ req[p].pc = "reg_hash"
    /\ req' = [req EXCEPT ![p].hashed = BcryptHash(req[p].password, salt),
                          ![p].pc = "reg_create"]
    /\ UNCHANGED <<users, nextId, started, now, producer, isProducerConnected,
                   producersCreated, listening, events, issued, pwChange, registered, trial, proc>>

\* a create whose id is the lowest one no row has, not the next of the serial
RegisterCreateReusesIds(p) ==
    /\ req[p].pc = "reg_create"
    /\ IF ViolatesUnique(users, 0, req[p].email)
       THEN /\ \E m \in UniqueViolationMessages :
                 req' = [req EXCEPT ![p] = RegisterCatch(req[p], CreateUserCatch(m))]
            /\ UNCHANGED <<users, nextId, registered>>
       ELSE /\ \E i \in 1..MaxUsers : findByPk(users, i) = {}
            /\ LET id == CHOOSE i \in 1..MaxUsers :
                             findByPk(users, i) = {} /\ \A j \in 1..(i - 1) : findByPk(users, j) # {}
                   row == [id |-> id, username |-> req[p].username,
                           email |-> req[p].email, passwordhash |-> req[p].hashed,
                           createdAt |-> now, updatedAt |-> now]
               IN  /\ users' = users \cup {row}
                   /\ req' = [req EXCEPT ![p].user = toExternalUser(row),
                                         ![p].created = TRUE,
                                         ![p].pc = "ev_get"]
                   /\ registered' = [registered EXCEPT ![row.id].username = row.username]
            /\ nextId' = nextId + 1
    /\ UNCHANGED <<started, now, producer, isProducerConnected, producersCreated,
                   listening, events, issued, pwChange, trial, proc>>

\* UserRepository.createUser: UserModel.create under the unique index, then
\* the service's check of the new user's id before it publishes
RegisterCreate(p) ==
    /\ req[p].pc = "reg_create"
    /\ IF ViolatesUnique(users, 0, req[p].email)
       THEN /\ \E m \in UniqueViolationMessages :
                 req' = [req EXCEPT ![p] = RegisterCatch(req[p], CreateUserCatch(m))]
            /\ UNCHANGED <<users, nextId, registered>>
       ELSE /\ nextId <= MaxUsers
            /\ LET row == [id |-> nextId, username |-> req[p].username,
                           email |-> req[p].email, passwordhash |-> req[p].hashed,
                           createdAt |-> now, updatedAt |-> now]
               IN  /\ users' = users \cup {row}
                   /\ req' = [req EXCEPT ![p].user = toExternalUser(row),
                                         ![p].created = TRUE,
                                         ![p].pc = "ev_get"]
                   /\ registered' = [registered EXCEPT ![row.id] =
                                        [username |-> row.username, touched |-> FALSE,
                                         deleted |-> FALSE]]
            /\ nextId' = nextId + 1
    /\ UNCHANGED <<started, now, producer, isProducerConnected, producersCreated,
                   listening, events, issued, pwChange, trial, proc>>

\* ------------------------------------------------------------------- login
\* What a login with this password is expected to give, by the last completed
\* password change of the row the email selects: "new" when it is the
\* password that change set, "old" when it is the one it replaced.
Expectation(rows, password) ==
    IF rows = {} THEN ""
    ELSE LET c == pwChange[(CHOOSE r \in rows : TRUE).id]
         IN  IF ~c.confirmed THEN ""
             ELSE IF password = c.new THEN "new"
             ELSE IF password = c.old THEN "old"
             ELSE ""

\* POST /auth/login up to the first await: the controller's field check
LoginStart(p, email, password) ==
    /\ Free(p)
    /\ LET r == [NewRequest("login", "login_find") EXCEPT !.email = email, !.password = password]
       IN  req' = [req EXCEPT ![p] =
                IF ~Truthy(email) \/ ~Truthy(password)
                THEN RespondMessage([r EXCEPT !.note = "missingFields",
                                              !.expect = Expectation(findOneByEmail(users, email), password)],
                                    400, MsgRequiredLogin)
                ELSE r]
    /\ started' = started + 1
    /\ UNCHANGED <<users, nextId, now, producer, isProducerConnected, producersCreated,
                   listening, events, issued, pwChange, registered, trial, proc>>

\* a login that tells a missing account from a wrong password
LoginRejectedTelling(r, why) ==
    IF why = "noUser" THEN RespondMessage([r EXCEPT !.note = why], 404, MsgNotFound)
    ELSE RespondMessage([r EXCEPT !.note = why], 401, MsgInvalidCredentials)

\* AuthController.login's answer to the null result of AuthService.login
LoginRejected(r, why) == RespondMessage([r EXCEPT !.note = why], 401, MsgInvalidCredentials)

\* AuthService.login: findUserByEmail
LoginFind(p) ==
    /\ req[p].pc = "login_find"
    /\ LET rows == findOneByEmail(users, req[p].email)
           user == toExternalUserOptional(rows)
           r == [req[p] EXCEPT !.expect = Expectation(rows, req[p].password)]
       IN  req' = [req EXCEPT ![p] =
                IF user = UndefinedUser \/ user.id = <<>>
                THEN LoginRejected(r, "noUser")
                ELSE [r EXCEPT !.user = user, !.pc = "login_compare"]]
    /\ UNCHANGED <<users, nextId, started, now, producer, isProducerConnected,
                   producersCreated, listening, events, issued, pwChange, registered, trial, proc>>

\* AuthService.login: bcrypt.compare, then jwt.sign on a match
LoginCompare(p) ==
    /\ req[p].pc = "login_compare"
    /\ IF ~BcryptCompare(req[p].password, req[p].user.passwordhash)
       THEN /\ req' = [req EXCEPT ![p] = LoginRejected(req[p], "mismatch")]
            /\ UNCHANGED issued
       ELSE LET token == JwtSign(req[p].user.id, thisJwtSecret, now)
            IN  /\ req' = [req EXCEPT ![p] =
                        Respond([req[p] EXCEPT !.note = "match"], 200, MsgNone,
                                [NoBodyUser EXCEPT !.id = req[p].user.id], token)]
                /\ issued' = issued \cup {token}
    /\ UNCHANGED <<users, nextId, started, now, producer, isProducerConnected,
                   producersCreated, listening, events, pwChange, registered, trial, proc>>

\* ---------------------------------------------------------- authMiddleware
\* a request without an Authorization header
NoHeader == [scheme |-> "", token |-> EmptyToken]

\* the header "Bearer <token>"
Bearer(token) == [scheme |-> "Bearer", token |-> token]

\* a middleware that reads the token's payload without verifying it
authMiddlewareDecodeOnly(header, t) ==
    IF header = NoHeader \/ header.scheme # "Bearer" THEN <<>>
    ELSE header.token.userId

\* authMiddleware at clock t: the user id it puts on the request, or <<>>
\* when it answers 401 itself
authMiddleware(header, t) ==
    IF header = NoHeader \/ header.scheme # "Bearer" THEN <<>>
    ELSE LET decoded == verifyToken(header.token, thisJwtSecret, t).value
         IN  IF decoded = Null \/ decoded.userId = <<>> THEN <<>> ELSE decoded.userId

\* a middleware that also rejects a token whose subject has no row
ProtectedRevoking(op, pc, header) ==
    LET userId == authMiddleware(header, now)
        r == [NewRequest(op, pc) EXCEPT
                 !.userId = userId, !.scheme = header.scheme, !.token = header.token,
                 !.fresh = (header.scheme = "Bearer" /\ header.token \in issued
                            /\ now < header.token.exp)]
    IN  IF userId = <<>> \/ \A row \in users : ToStr(row.id) # userId
        THEN RespondMessage([r EXCEPT !.note = "unauthorized"], 401, MsgUnauthorized)
        ELSE r

\* a protected request as the middleware hands it to its controller, or the
\* middleware's own 401
Protected(op, pc, header) ==
    LET userId == authMiddleware(header, now)
        r == [NewRequest(op, pc) EXCEPT
                 !.userId = userId, !.scheme = header.scheme, !.token = header.token,
                 !.fresh = (header.scheme = "Bearer" /\ header.token \in issued
                            /\ now < header.token.exp)]
    IN  IF userId = <<>> THEN RespondMessage([r EXCEPT !.note = "unauthorized"], 401, MsgUnauthorized)
        ELSE r

\* UserRepository.findUserById
findUserById(table, id) ==
    IF parseInt(id) = NaN THEN UndefinedUser
    ELSE toExternalUserOptional(findByPk(table, parseInt(id)))

\* ------------------------------------------------------------ GET /users/me
GetMeStart(p, header) ==
    /\ Free(p)
    /\ req' = [req EXCEPT ![p] = Protected("getMe", "me_find", header)]
    /\ started' = started + 1
    /\ UNCHANGED <<users, nextId, now, producer, isProducerConnected, producersCreated,
                   listening, events, issued, pwChange, registered, trial, proc>>

\* UserController.getMe: findUserById of the token's subject
GetMeFind(p) ==
    /\ req[p].pc = "me_find"
    /\ LET user == findUserById(users, req[p].userId)
       IN  req' = [req EXCEPT ![p] =
                IF user # UndefinedUser
                THEN Respond(req[p], 200, MsgNone, user, EmptyToken)
                ELSE RespondMessage(req[p], 404, MsgNotFound)]
    /\ UNCHANGED <<users, nextId, started, now, producer, isProducerConnected,
                   producersCreated, listening, events, issued, pwChange, registered, trial, proc>>

\* ----------------------------------------------------------- GET /users/:id
GetUserByIdStart(p, header, pathId) ==
    /\ Free(p)
    /\ LET r == Protected("getUserById", "get_find", header)
       IN  req' = [req EXCEPT ![p] = IF r.pc = "done" THEN r ELSE [r EXCEPT !.pathId = pathId]]
    /\ started' = started + 1
    /\ UNCHANGED <<users, nextId, now, producer, isProducerConnected, producersCreated,
                   listening, events, issued, pwChange, registered, trial, proc>>

\* UserController.getUserById: findUserById of the id in the path
GetUserByIdFind(p) ==
    /\ req[p].pc = "get_find"
    /\ LET user == findUserById(users, req[p].pathId)
       IN  req' = [req EXCEPT ![p] =
                IF user # UndefinedUser
                THEN Respond(req[p], 200, MsgNone, user, EmptyToken)
                ELSE RespondMessage(req[p], 404, MsgNotFound)]
    /\ UNCHANGED <<users, nextId, started, now, producer, isProducerConnected,
                   producersCreated, listening, events, issued, pwChange, registered, trial, proc>>

\* --------------------------------------------------------------- GET /users
GetAllUsersStart(p, header) ==
    /\ Free(p)
    /\ req' = [req EXCEPT ![p] = Protected("getAllUsers", "all_find", header)]
    /\ started' = started + 1
    /\ UNCHANGED <<users, nextId, now, producer, isProducerConnected, producersCreated,
                   listening, events, issued, pwChange, registered, trial, proc>>

\* UserController.getAllUsers: UserModel.findAll, each row through
\* toExternalUser
GetAllUsersFind(p) ==
    /\ req[p].pc = "all_find"
    /\ req' = [req EXCEPT ![p] =
                [Respond(req[p], 200, MsgNone, NoBodyUser, EmptyToken) EXCEPT
                    !.resp.list = {toExternalUser(row) : row \in users}]]
    /\ UNCHANGED <<users, nextId, started, now, producer, isProducerConnected,
                   producersCreated, listening, events, issued, pwChange, registered, trial, proc>>

\* ---------------------------------------------------------- POST /auth/logout
\* AuthController.logout: no middleware on the route, and nothing but the 204
Logout(p, header) ==
    /\ Free(p)
    /\ req' = [req EXCEPT ![p] =
                RespondMessage([NewRequest("logout", "done") EXCEPT
                                   !.scheme = header.scheme, !.token = header.token],
                               204, MsgNone)]
    /\ started' = started + 1
    /\ UNCHANGED <<users, nextId, now, producer, isProducerConnected, producersCreated,
                   listening, events, issued, pwChange, registered, trial, proc>>

\* ------------------------------------------------- update user and password
\* a service that takes whatever the repository returned for an updated user
AfterRepoUpdateNoCheck(r, user) == AfterPublish([r EXCEPT !.user = user])

\* UserService.updateUser / updateUserPassword once the repository has
\* returned user: publish when it has an id and a username, answer otherwise
AfterRepoUpdate(r, user) ==
    IF user = UndefinedUser THEN RespondMessage(r, 404, MsgNotFound)
    ELSE IF user.id # <<>> /\ Truthy(user.username)
         THEN [r EXCEPT !.user = user, !.pc = "ev_get"]
         ELSE AfterPublish([r EXCEPT !.user = user])

\* PUT /users/:id up to the repository call: the middleware, then
\* UserService.updateUser re-hashes a truthy passwordhash of the body
UpdateUserStart(p, header, pathId, username, email, passwordhash, salt) ==
    /\ Free(p)
    /\ LET r == Protected("updateUser", "upd_write", header)
       IN  req' = [req EXCEPT ![p] =
                IF r.pc = "done" THEN r
                ELSE [r EXCEPT !.pathId = pathId, !.username = username, !.email = email,
                               !.hashed = IF passwordhash = Absent THEN NoHashField
                                          ELSE IF Truthy(passwordhash) THEN BcryptHash(passwordhash, salt)
                                          ELSE RawHash(passwordhash)]]
    /\ started' = started + 1
    /\ UNCHANGED <<users, nextId, now, producer, isProducerConnected, producersCreated,
                   listening, events, issued, pwChange, registered, trial, proc>>

\* PUT /users/me/password up to the repository call: the middleware, then
\* UserService.updateUserPassword hashes req.body.newPassword
UpdateUserPasswordStart(p, header, newPassword, salt) ==
    /\ Free(p)
    /\ LET r == Protected("updateUserPassword", "upd_write", header)
       IN  req' = [req EXCEPT ![p] =
                IF r.pc = "done" THEN r
                ELSE IF newPassword = Absent THEN RespondMessage(r, 500, MsgInternal)
                ELSE [r EXCEPT !.pathId = r.userId, !.password = newPassword,
                               !.hashed = BcryptHash(newPassword, salt)]]
    /\ started' = started + 1
    /\ UNCHANGED <<users, nextId, now, producer, isProducerConnected, producersCreated,
                   listening, events, issued, pwChange, registered, trial, proc>>

\* an update that writes every field of the body, supplied or not
UpdatedEveryField(row, r, t) ==
    [id |-> row.id,
     username |-> r.username,
     email |-> r.email,
     passwordhash |-> r.hashed,
     createdAt |-> row.createdAt,
     updatedAt |-> t]

\* the row after UserModel.update has written the supplied fields at clock t:
\* with timestamps on, the update sets updatedAt
Updated(row, r, t) ==
    [id |-> row.id,
     username |-> IF r.username # Absent THEN r.username ELSE row.username,
     email |-> IF r.email # Absent THEN r.email ELSE row.email,
     passwordhash |-> IF r.hashed # NoHashField THEN r.hashed ELSE row.passwordhash,
     createdAt |-> row.createdAt,
     updatedAt |-> t]

\* the plaintext behind a stored passwordhash, where it is a hash
PlainOf(stored) == IF stored.alg = "bcrypt" THEN stored.text ELSE Absent

\* the record of password changes after a write of r to the row
ChangeAfterWrite(p, row) ==
    LET r == req[p]
    IN  IF r.hashed = NoHashField THEN pwChange
        ELSE IF r.op = "updateUserPassword"
             THEN [pwChange EXCEPT ![row.id] =
                      [confirmed |-> FALSE, old |-> PlainOf(row.passwordhash),
                       new |-> r.password, by |-> p]]
             ELSE [pwChange EXCEPT ![row.id] = NoChange]

\* an updateUser that takes every call to carry a field
hasUpdatesAlways(r) == TRUE

\* UserRepository.updateUser's hasUpdates: a field of the three is not undefined
hasUpdates(r) == r.username # Absent \/ r.email # Absent \/ r.hashed # NoHashField

\* UserRepository.updateUser up to its first query: an id that is not a
\* number gives undefined, no supplied field gives findUserById, and
\* otherwise UserModel.update runs under the unique index
UpdateWrite(p) ==
    /\ req[p].pc = "upd_write"
    /\ LET r == req[p]
           numericId == parseInt(r.pathId)
           rows == findByPk(users, numericId)
       IN  IF numericId = NaN
           THEN /\ req' = [req EXCEPT ![p] = AfterRepoUpdate(r, UndefinedUser)]
                /\ UNCHANGED <<users, pwChange, registered>>
           ELSE IF ~hasUpdates(r)
           THEN /\ req' = [req EXCEPT ![p] = AfterRepoUpdate(r, findUserById(users, r.pathId))]
                /\ UNCHANGED <<users, pwChange, registered>>
           ELSE IF rows = {}
           THEN /\ req' = [req EXCEPT ![p].pc = "upd_reread"]
                /\ UNCHANGED <<users, pwChange, registered>>
           ELSE LET row == CHOOSE x \in rows : TRUE
                IN  IF r.email # Absent /\ ViolatesUnique(users, row.id, r.email)
                    THEN /\ req' = [req EXCEPT ![p] = RespondMessage(r, 500, MsgInternal)]
                         /\ UNCHANGED <<users, pwChange, registered>>
                    ELSE /\ users' = (users \ {row}) \cup {Updated(row, r, now)}
                         /\ pwChange' = ChangeAfterWrite(p, row)
                         /\ registered' = [registered EXCEPT ![row.id].touched =
                                              @ \/ r.username # Absent]
                         /\ req' = [req EXCEPT ![p].pc = "upd_reread", ![p].note = "wrote"]
    /\ UNCHANGED <<nextId, started, now, producer, isProducerConnected, producersCreated,
                   listening, events, issued, trial, proc>>

\* UserRepository.updateUser: the findByPk after the update
UpdateReread(p) ==
    /\ req[p].pc = "upd_reread"
    /\ LET r == req[p]
           user == toExternalUserOptional(findByPk(users, parseInt(r.pathId)))
       IN  /\ req' = [req EXCEPT ![p] = AfterRepoUpdate(r, user)]
           /\ pwChange' = ChangeAfterResponse(p, AfterRepoUpdate(r, user))
    /\ UNCHANGED <<users, nextId, started, now, producer, isProducerConnected,
                   producersCreated, listening, events, issued, registered, trial, proc>>

\* ------------------------------------------------------------- delete user
\* a DELETE /users/:id that lets a subject delete its own record only
DeleteUserStartOwnerOnly(p, header, pathId) ==
    /\ Free(p)
    /\ LET r == Protected("deleteUser", "del_find", header)
       IN  req' = [req EXCEPT ![p] =
                IF r.pc = "done" THEN r
                ELSE IF r.userId # pathId
                     THEN RespondMessage([r EXCEPT !.pathId = pathId], 403, MsgUnauthorized)
                     ELSE [r EXCEPT !.pathId = pathId]]
    /\ started' = started + 1
    /\ UNCHANGED <<users, nextId, now, producer, isProducerConnected, producersCreated,
                   listening, events, issued, pwChange, registered, trial, proc>>

\* DELETE /users/:id up to the first await
DeleteUserStart(p, header, pathId) ==
    /\ Free(p)
    /\ LET r == Protected("deleteUser", "del_find", header)
       IN  req' = [req EXCEPT ![p] = IF r.pc = "done" THEN r ELSE [r EXCEPT !.pathId = pathId]]
    /\ started' = started + 1
    /\ UNCHANGED <<users, nextId, now, producer, isProducerConnected, producersCreated,
                   listening, events, issued, pwChange, registered, trial, proc>>

\* UserService.deleteUser: the findUserById before the delete
DeleteFind(p) ==
    /\ req[p].pc = "del_find"
    /\ LET userToDelete == findUserById(users, req[p].pathId)
       IN  req' = [req EXCEPT ![p] =
                IF userToDelete = UndefinedUser
                THEN RespondMessage(req[p], 404, MsgNotFound)
                ELSE [req[p] EXCEPT !.user = userToDelete, !.pc = "del_destroy"]]
    /\ UNCHANGED <<users, nextId, started, now, producer, isProducerConnected,
                   producersCreated, listening, events, issued, pwChange, registered, trial, proc>>

\* a delete that reports success whether or not a row went
DeleteDestroyAlwaysTrue(p) ==
    /\ req[p].pc = "del_destroy"
    /\ LET numericId == parseInt(req[p].pathId)
           rows == IF numericId = NaN THEN {} ELSE findByPk(users, numericId)
       IN  /\ users' = users \ rows
           /\ pwChange' = [i \in DOMAIN pwChange |->
                             IF \E x \in rows : x.id = i THEN NoChange ELSE pwChange[i]]
           /\ req' = [req EXCEPT ![p] = [req[p] EXCEPT !.pc = "ev_get", !.note = "deleted"]]
           /\ registered' = [i \in DOMAIN registered |->
                               IF \E x \in rows : x.id = i
                               THEN [registered[i] EXCEPT !.touched = TRUE, !.deleted = TRUE]
                               ELSE registered[i]]
    /\ UNCHANGED <<nextId, started, now, producer, isProducerConnected, producersCreated,
                   listening, events, issued, trial, proc>>

\* UserRepository.deleteUser: UserModel.destroy, true when a row went
DeleteDestroy(p) ==
    /\ req[p].pc = "del_destroy"
    /\ LET numericId == parseInt(req[p].pathId)
           rows == IF numericId = NaN THEN {} ELSE findByPk(users, numericId)
       IN  /\ users' = users \ rows
           /\ pwChange' = [i \in DOMAIN pwChange |->
                             IF \E x \in rows : x.id = i THEN NoChange ELSE pwChange[i]]
           /\ req' = [req EXCEPT ![p] =
                        IF rows # {} THEN [req[p] EXCEPT !.pc = "ev_get", !.note = "deleted"]
                        ELSE RespondMessage([req[p] EXCEPT !.note = "lost"], 404, MsgNotFound)]
           /\ registered' = [i \in DOMAIN registered |->
                               IF \E x \in rows : x.id = i
                               THEN [registered[i] EXCEPT !.touched = TRUE, !.deleted = TRUE]
                               ELSE registered[i]]
    /\ UNCHANGED <<nextId, started, now, producer, isProducerConnected, producersCreated,
                   listening, events, issued, trial, proc>>

\* ------------------------------------------------------------------- clock
\* the clock moves on to instant t
Tick(t) ==
    /\ t > now
    /\ now' = t
    /\ UNCHANGED <<users, nextId, req, started, producer, isProducerConnected,
                   producersCreated, listening, events, issued, pwChange, registered, trial, proc>>

\* ---------------------------------------------------------- registration
\* Behaviours in which clients register, concurrently, and the bus may fail.
RegUsernames == {"alice", "bob"}
RegPasswords == {"pw1", ""}
RegSalts == {"saltA"}

Publish ==
    \/ \E p \in Slots : PublishStart(p)
    \/ \E p \in Slots : ConnectOk(p)
    \/ \E p \in Slots : ConnectFail(p)
    \/ \E p \in Slots : SendOk(p)
    \/ \E p \in Slots : SendFail(p)

Next ==
    \/ \E p \in Slots, u \in RegUsernames, e \in Emails, w \in RegPasswords : RegisterStart(p, u, e, w)
    \/ \E p \in Slots : RegisterFind(p)
    \/ \E p \in Slots, salt \in RegSalts : RegisterHash(p, salt)
    \/ \E p \in Slots : RegisterCreate(p)
    \/ Publish
    \/ \E q \in 1..MaxProducers : OnProducerDisconnect(q)

Spec == Init /\ [][Next]_vars

\* ----------------------------------------------------------------- accounts
\* The state after alice has registered (her UserCreated event sent over a
\* newly connected producer) and logged in at clock 0.
AliceRow ==
    [id |-> 1, username |-> "alice", email |-> "a@x.com",
     passwordhash |-> BcryptHash("pw1", "saltA"), createdAt |-> 0, updatedAt |-> 0]

AliceToken == JwtSign(ToStr(1), JwtSecret, 0)

InitAccounts ==
    /\ users = {AliceRow}
    /\ nextId = 2
    /\ req = [p \in Slots |-> IdleRequest]
    /\ started = 2
    /\ now = 0
    /\ producer = 1
    /\ isProducerConnected = TRUE
    /\ producersCreated = 1
    /\ listening = {1}
    /\ events = SetToBag({UserEvent("UserCreated", ToStr(1), "alice", "a@x.com")})
    /\ issued = {AliceToken}
    /\ pwChange = [i \in 1..MaxUsers |-> NoChange]
    /\ registered = [i \in 1..MaxUsers |->
                        IF i = 1 THEN [username |-> "alice", touched |-> FALSE, deleted |-> FALSE]
                        ELSE NotRegistered]
    /\ trial = NoTrial
    /\ proc = ListeningProcess

\* the ids a client may put in the path
PathIds == {ToStr(i) : i \in 1..MaxUsers}

\* the Authorization headers of clients that logged in
IssuedHeaders == {Bearer(t) : t \in issued}

Register ==
    \/ \E p \in Slots, e \in Emails : RegisterStart(p, "bob", e, "pw1")
    \/ \E p \in Slots : RegisterFind(p)
    \/ \E p \in Slots : RegisterHash(p, "saltA")
    \/ \E p \in Slots : RegisterCreate(p)

Update ==
    \/ \E p \in Slots : UpdateWrite(p)
    \/ \E p \in Slots : UpdateReread(p)

Delete ==
    \/ \E p \in Slots, h \in IssuedHeaders, id \in PathIds : DeleteUserStart(p, h, id)
    \/ \E p \in Slots : DeleteFind(p)
    \/ \E p \in Slots : DeleteDestroy(p)

\* Behaviours in which clients register, update users (their email
\* included), change passwords and delete users concurrently.
NextAccounts ==
    \/ Register
    \/ \E p \in Slots, h \in IssuedHeaders, id \in PathIds, e \in Emails \cup {Absent} :
          UpdateUserStart(p, h, id, Absent, e, Absent, "saltA")
    \/ \E p \in Slots, h \in IssuedHeaders : UpdateUserPasswordStart(p, h, "pw2", "saltA")
    \/ Update
    \/ Delete
    \/ Publish
    \/ \E q \in 1..MaxProducers : OnProducerDisconnect(q)

SpecAccounts == InitAccounts /\ [][NextAccounts]_vars

\* -------------------------------------------------------------------- login
\* Behaviours in which clients log in, read their record, change passwords,
\* rename and delete users, while the clock moves on.
LoginInstants == {k * TokenLifetime : k \in 1..MaxTicks}

NextLogin ==
    \/ \E p \in Slots, e \in Emails, w \in Passwords : LoginStart(p, e, w)
    \/ \E p \in Slots : LoginFind(p)
    \/ \E p \in Slots : LoginCompare(p)
    \/ \E p \in Slots, h \in IssuedHeaders : GetMeStart(p, h)
    \/ \E p \in Slots : GetMeFind(p)
    \/ \E p \in Slots, h \in IssuedHeaders, w \in Passwords :
          UpdateUserPasswordStart(p, h, w, "saltB")
    \/ \E p \in Slots, h \in IssuedHeaders, id \in PathIds, u \in {"bob", Absent} :
          UpdateUserStart(p, h, id, u, Absent, Absent, "saltB")
    \/ Update
    \/ Delete
    \/ \E p \in Slots : PublishStart(p)
    \/ \E p \in Slots : SendOk(p)
    \/ \E p \in Slots : SendFail(p)
    \/ \E t \in LoginInstants : Tick(t)

SpecLogin == InitAccounts /\ [][NextLogin]_vars

\* ------------------------------------------------------------------ tokens
\* Behaviours in which tokens are signed for a subject, or made up, and put
\* to verifyToken and to the middleware at instants around their expiry.
TokenInstants ==
    {t \in {k * TokenLifetime + d : k \in 0..(MaxTicks + 1), d \in {-1, 0, 1}} : t > 0}

\* jwt.sign for a subject, with the service secret or with another one
TrialSign(subject, secret) ==
    /\ trial' = [trial EXCEPT
                    !.class = IF secret = JwtSecret THEN "own" ELSE "forged",
                    !.subject = subject, !.signedAt = now,
                    !.token = JwtSign(subject, secret, now)]
    /\ UNCHANGED <<users, nextId, req, started, now, producer, isProducerConnected,
                   producersCreated, listening, events, issued, pwChange, registered, proc>>

\* a token string that is not a JWT
TrialMakeUp(token) ==
    /\ trial' = [trial EXCEPT
                    !.class = token.typ, !.subject = <<>>, !.signedAt = now, !.token = token]
    /\ UNCHANGED <<users, nextId, req, started, now, producer, isProducerConnected,
                   producersCreated, listening, events, issued, pwChange, registered, proc>>

\* the token on trial goes to verifyToken, and as 'Bearer <token>' to the
\* middleware of a protected route
TrialVerify ==
    /\ trial.class # "none"
    /\ LET class == IF trial.class # "own" THEN trial.class
                    ELSE IF now >= trial.signedAt + TokenLifetime THEN "expired"
                    ELSE "valid"
           r == verifyToken(trial.token, thisJwtSecret, now)
       IN  trial' = [trial EXCEPT !.verdicts[class] =
                        [kind |-> r.kind, value |-> r.value, subject |-> trial.subject,
                         response |-> Protected("getMe", "me_find", Bearer(trial.token)).resp]]
    /\ UNCHANGED <<users, nextId, req, started, now, producer, isProducerConnected,
                   producersCreated, listening, events, issued, pwChange, registered, proc>>

NextToken ==
    \/ \E subject \in PathIds, secret \in {JwtSecret, OtherSecret} : TrialSign(subject, secret)
    \/ \E token \in {EmptyToken, GarbageToken} : TrialMakeUp(token)
    \/ TrialVerify
    \/ \E t \in TokenInstants : Tick(t)

SpecToken == Init /\ [][NextToken]_vars

\* ----------------------------------------------------------- protected routes
\* Behaviours in which clients call the protected routes and logout with and
\* without a valid Authorization header, while the clock moves on.
GuardHeaders ==
    { NoHeader,
      [scheme |-> "Basic", token |-> AliceToken],
      Bearer(EmptyToken),
      Bearer(GarbageToken),
      Bearer(JwtSign(ToStr(1), OtherSecret, 0)),
      Bearer(AliceToken) }

NextGuard ==
    \/ \E p \in Slots, h \in GuardHeaders : GetAllUsersStart(p, h)
    \/ \E p \in Slots : GetAllUsersFind(p)
    \/ \E p \in Slots, h \in GuardHeaders : GetMeStart(p, h)
    \/ \E p \in Slots : GetMeFind(p)
    \/ \E p \in Slots, h \in GuardHeaders, id \in PathIds : GetUserByIdStart(p, h, id)
    \/ \E p \in Slots : GetUserByIdFind(p)
    \/ \E p \in Slots, h \in GuardHeaders : UpdateUserPasswordStart(p, h, "pw2", "saltA")
    \/ \E p \in Slots, h \in GuardHeaders, id \in PathIds :
          UpdateUserStart(p, h, id, "bob", Absent, Absent, "saltA")
    \/ Update
    \/ \E p \in Slots, h \in GuardHeaders, id \in PathIds : DeleteUserStart(p, h, id)
    \/ \E p \in Slots : DeleteFind(p)
    \/ \E p \in Slots : DeleteDestroy(p)
    \/ \E p \in Slots, h \in GuardHeaders : Logout(p, h)
    \/ \E p \in Slots : PublishStart(p)
    \/ \E p \in Slots : SendOk(p)
    \/ \E t \in LoginInstants : Tick(t)

SpecGuard == InitAccounts /\ [][NextGuard]_vars

\* ---------------------------------------------------------------- deletion
\* The service restarted over the database in which alice is registered: the
\* producer of its start is connected, no request has been made, and a client
\* holds the token of alice's last login, signed at clock 0.
InitRestarted ==
    /\ users = {AliceRow}
    /\ nextId = 2
    /\ req = [p \in Slots |-> IdleRequest]
    /\ started = 0
    /\ now = 0
    /\ producer = 1
    /\ isProducerConnected = TRUE
    /\ producersCreated = 1
    /\ listening = {1}
    /\ events = EmptyBag
    /\ issued = {AliceToken}
    /\ pwChange = [i \in 1..MaxUsers |-> NoChange]
    /\ registered = [i \in 1..MaxUsers |->
                        IF i = 1 THEN [username |-> "alice", touched |-> FALSE, deleted |-> FALSE]
                        ELSE NotRegistered]
    /\ trial = NoTrial
    /\ proc = ListeningProcess

\* Behaviours in which clients delete users, concurrently, read them by id
\* and register anew.
NextDelete ==
    \/ \E p \in Slots, id \in PathIds : DeleteUserStart(p, Bearer(AliceToken), id)
    \/ \E p \in Slots : DeleteFind(p)
    \/ \E p \in Slots : DeleteDestroy(p)
    \/ \E p \in Slots, id \in PathIds : GetUserByIdStart(p, Bearer(AliceToken), id)
    \/ \E p \in Slots : GetUserByIdFind(p)
    \/ Register
    \/ \E p \in Slots : PublishStart(p)
    \/ \E p \in Slots : SendOk(p)
    \/ \E p \in Slots : SendFail(p)

SpecDelete == InitRestarted /\ [][NextDelete]_vars

\* ----------------------------------------------------------------- process
\* index.ts from the top of the module to process.exit, over the database in
\* which alice is registered.
EnvSecrets ==
    { UndefinedEnv, EnvString(<<>>), EnvString(<<" ", " ">>),
      EnvString(JwtSecret), EnvString(<<" ">> \o OtherSecret) }

InitBoot ==
    /\ users = {AliceRow}
    /\ nextId = 2
    /\ req = [p \in Slots |-> IdleRequest]
    /\ started = 0
    /\ now = 0
    /\ producer = 0
    /\ isProducerConnected = FALSE
    /\ producersCreated = 0
    /\ listening = {}
    /\ events = EmptyBag
    /\ issued = {}
    /\ pwChange = [i \in 1..MaxUsers |-> NoChange]
    /\ registered = [i \in 1..MaxUsers |->
                        IF i = 1 THEN [username |-> "alice", touched |-> FALSE, deleted |-> FALSE]
                        ELSE NotRegistered]
    /\ trial = NoTrial
    /\ \E env \in EnvSecrets :
          proc = [ListeningProcess EXCEPT !.phase = "boot", !.env = env, !.server = "none"]

\* process.exit(code)
Exit(code) == [proc EXCEPT !.phase = "exited", !.exitCode = code]

\* the JWT_SECRET check at the top of index.ts, then startServer up to its
\* await of getKafkaProducer, which creates a producer and starts its connect
StartServer ==
    /\ proc.phase = "boot"
    /\ IF ~proc.env.defined \/ proc.env.chars = <<>>
       THEN /\ proc' = Exit(1)
            /\ UNCHANGED producersCreated
       ELSE /\ producersCreated < MaxProducers
            /\ producersCreated' = producersCreated + 1
            /\ proc' = [proc EXCEPT !.phase = "kafka", !.newProducer = producersCreated + 1]
    /\ UNCHANGED <<users, nextId, req, started, now, producer, isProducerConnected,
                   listening, events, issued, pwChange, registered, trial>>

\* an App constructor that tests the secret for emptiness only
AppConstructorNoTrim(jwtSecret) == IF jwtSecret = <<>> THEN "throw" ELSE "constructed"

\* new App(jwtSecret): throws for a secret that is empty once trimmed, and
\* sets up the routes otherwise
AppConstructor(jwtSecret) == IF Trim(jwtSecret) = <<>> THEN "throw" ELSE "constructed"

\* the connect of startServer's getKafkaProducer resolves: the producer is
\* cached, the App constructed and the server listening, or the constructor's
\* error caught and disconnectProducer awaited
StartConnectOk ==
    /\ proc.phase = "kafka"
    /\ producer' = proc.newProducer
    /\ isProducerConnected' = TRUE
    /\ listening' = listening \cup {proc.newProducer}
    /\ proc' = IF AppConstructor(proc.env.chars) = "constructed"
               THEN [proc EXCEPT !.phase = "listening", !.server = "listening"]
               ELSE [proc EXCEPT !.phase = "failing", !.producerStop = "pending"]
    /\ UNCHANGED <<users, nextId, req, started, now, producersCreated, events, issued,
                   pwChange, registered, trial>>

\* the connect of startServer's getKafkaProducer rejects: the catch finds no
\* producer to disconnect and exits
StartConnectFail ==
    /\ proc.phase = "kafka"
    /\ producer' = 0
    /\ isProducerConnected' = FALSE
    /\ proc' = Exit(1)
    /\ UNCHANGED <<users, nextId, req, started, now, producersCreated, listening, events,
                   issued, pwChange, registered, trial>>

\* disconnectProducer's finally, in the catch of startServer, then the exit
StartFailed ==
    /\ proc.phase = "failing"
    /\ listening' = listening \ {producer}
    /\ producer' = 0
    /\ isProducerConnected' = FALSE
    /\ proc' = [Exit(1) EXCEPT !.producerStop = "done"]
    /\ UNCHANGED <<users, nextId, req, started, now, producersCreated, events, issued,
                   pwChange, registered, trial>>

\* a shutdown that sets no timer
ShutdownNoTimer ==
    /\ proc.phase \in {"listening", "closing", "disconnecting"}
    /\ proc.signals < MaxSignals
    /\ proc' = [proc EXCEPT
                   !.signals = @ + 1,
                   !.phase = IF @ = "listening" THEN "closing" ELSE @,
                   !.server = IF @ = "listening" THEN "closing" ELSE @]
    /\ UNCHANGED <<users, nextId, req, started, now, producer, isProducerConnected,
                   producersCreated, listening, events, issued, pwChange, registered, trial>>

\* SIGTERM or SIGINT: shutdown calls server.close and sets the timer of the
\* forced exit (of the timers of several signals the first one fires first)
Shutdown ==
    /\ proc.phase \in {"listening", "closing", "disconnecting"}
    /\ proc.signals < MaxSignals
    /\ proc' = [proc EXCEPT
                   !.signals = @ + 1,
                   !.phase = IF @ = "listening" THEN "closing" ELSE @,
                   !.server = IF @ = "listening" THEN "closing" ELSE @,
                   !.deadline = IF @ = -1 THEN now + ForceExitDelay ELSE @]
    /\ UNCHANGED <<users, nextId, req, started, now, producer, isProducerConnected,
                   producersCreated, listening, events, issued, pwChange, registered, trial>>

\* the exit codes of the close callbacks: the callback of a second signal
\* gets an error, as the server was no longer running when it was registered
CloseExitCodes == IF proc.signals > 1 THEN {0, 1} ELSE {0}

\* the server has closed (no request is being handled): the close callback
\* calls disconnectProducer, which awaits producer.disconnect when a producer
\* is cached and returns at once otherwise, and then the callback exits
ServerClosed ==
    /\ proc.phase = "closing"
    /\ \A p \in Slots : req[p].pc \in {"idle", "done"}
    /\ IF producer # 0
       THEN proc' = [proc EXCEPT !.phase = "disconnecting", !.server = "closed",
                                 !.producerStop = "pending"]
       ELSE \E code \in CloseExitCodes :
               proc' = [Exit(code) EXCEPT !.server = "closed"]
    /\ UNCHANGED <<users, nextId, req, started, now, producer, isProducerConnected,
                   producersCreated, listening, events, issued, pwChange, registered, trial>>

\* producer.disconnect settles: disconnectProducer's finally, then the exit
\* of the close callback
GracefulExit ==
    /\ proc.phase = "disconnecting"
    /\ listening' = listening \ {producer}
    /\ producer' = 0
    /\ isProducerConnected' = FALSE
    /\ \E code \in CloseExitCodes :
          proc' = [Exit(code) EXCEPT !.producerStop = "done"]
    /\ UNCHANGED <<users, nextId, req, started, now, producersCreated, events, issued,
                   pwChange, registered, trial>>

\* the timer of shutdown fires, ForceExitDelay after the signal
ForceExit ==
    /\ proc.phase # "exited"
    /\ proc.deadline # -1
    /\ now <= proc.deadline
    /\ now' = proc.deadline
    /\ proc' = Exit(1)
    /\ UNCHANGED <<users, nextId, req, started, producer, isProducerConnected,
                   producersCreated, listening, events, issued, pwChange, registered, trial>>

\* the server accepts connections; the process runs handlers
Accepting == proc.phase = "listening"
Running == proc.phase \in {"listening", "closing", "disconnecting"}

NextProcess ==
    \/ StartServer
    \/ StartConnectOk
    \/ StartConnectFail
    \/ StartFailed
    \/ Accepting /\ \E p \in Slots, w \in {"pw1", "pw2"} : LoginStart(p, "a@x.com", w)
    \/ Running /\ \E p \in Slots : LoginFind(p)
    \/ Running /\ \E p \in Slots : LoginCompare(p)
    \/ Running /\ \E q \in 1..MaxProducers : OnProducerDisconnect(q)
    \/ Shutdown
    \/ ServerClosed
    \/ GracefulExit
    \/ ForceExit

SpecProcess == InitBoot /\ [][NextProcess]_vars

\* the timer of shutdown is not cancelled and the event loop runs it
SpecShutdown == InitBoot /\ [][NextProcess]_vars /\ WF_vars(ForceExit)

\* ------------------------------------------------------------------ updates
\* The service restarted over the database in which alice registered at
\* clock 0; since then bob has registered and logged in, at clock 1 (his
\* UserCreated event sent over the producer of the start), and it is clock 2.
\* A client holds the token of alice's last login.
BobRow ==
    [id |-> 2, username |-> "bob", email |-> "b@x.com",
     passwordhash |-> BcryptHash("pw1", "saltA"), createdAt |-> 1, updatedAt |-> 1]

BobToken == JwtSign(ToStr(2), JwtSecret, 1)

InitUpdate ==
    /\ users = {AliceRow, BobRow}
    /\ nextId = 3
    /\ req = [p \in Slots |-> IdleRequest]
    /\ started = 2
    /\ now = 2
    /\ producer = 1
    /\ isProducerConnected = TRUE
    /\ producersCreated = 1
    /\ listening = {1}
    /\ events = SetToBag({UserEvent("UserCreated", ToStr(2), "bob", "b@x.com")})
    /\ issued = {AliceToken, BobToken}
    /\ pwChange = [i \in 1..MaxUsers |-> NoChange]
    /\ registered = [i \in 1..MaxUsers |->
                        IF i = 1 THEN [username |-> "alice", touched |-> FALSE, deleted |-> FALSE]
                        ELSE IF i = 2 THEN [username |-> "bob", touched |-> FALSE, deleted |-> FALSE]
                        ELSE NotRegistered]
    /\ trial = NoTrial
    /\ proc = ListeningProcess

\* the fields a PUT /users/:id body may carry
BodyUsernames == {Absent, "carol"}
BodyEmails == {Absent, "c@x.com"}
BodyHashes == {Absent, ""}

\* Behaviours in which alice's client updates users with any subset of the
\* fields, changes her password and deletes users, concurrently.
NextUpdate ==
    \/ \E p \in Slots, id \in PathIds, u \in BodyUsernames, e \in BodyEmails, w \in BodyHashes :
          UpdateUserStart(p, Bearer(AliceToken), id, u, e, w, "saltB")
    \/ \E p \in Slots : UpdateUserPasswordStart(p, Bearer(AliceToken), "pw2", "saltB")
    \/ \E p \in Slots : UpdateWrite(p)
    \/ \E p \in Slots : UpdateReread(p)
    \/ \E p \in Slots, id \in PathIds : DeleteUserStart(p, Bearer(AliceToken), id)
    \/ \E p \in Slots : DeleteFind(p)
    \/ \E p \in Slots : DeleteDestroy(p)
    \/ \E p \in Slots : PublishStart(p)
    \/ \E p \in Slots : SendOk(p)
    \/ \E p \in Slots : SendFail(p)

SpecUpdate == InitUpdate /\ [][NextUpdate]_vars

\* ------------------------------------------------- registration properties
RegistersOf(email) ==
    {p \in Slots : req[p].op = "register" /\ req[p].email = email /\ req[p].pc = "done"}

Succeeded(p) == req[p].resp.status = 201 /\ req[p].resp.user.id # <<>>

Conflicted(p) == req[p].resp.status = 400 /\ req[p].resp.message = MsgEmailInUse

\* C1: when two register calls for the same email, both started while the
\* email was free, have both answered, exactly one answered 201 with a user
\* id, the other answered 400 'Email already in use', and the table holds
\* exactly one row with that email.
C1_ExactlyOneRegisters ==
    \A e \in Emails :
        (RegistersOf(e) = Slots /\ \A p \in Slots : req[p].note = "free")
        => /\ \E p \in Slots : Succeeded(p) /\ \A q \in Slots \ {p} : Conflicted(q)
           /\ Cardinality(findOneByEmail(users, e)) = 1

\* C3: a register call whose pre-check runs while a row holds its email ends
\* at that step with 400 'Email already in use', has created no row and made
\* no send, and the step changes neither the table nor the records sent.
C3_DuplicateRejected ==
    [][\A p \in Slots :
          (/\ req[p].pc = "reg_find"
           /\ findOneByEmail(users, req[p].email) # {}
           /\ req'[p] # req[p])
          => /\ req'[p].pc = "done"
             /\ req'[p].resp.status = 400
             /\ req'[p].resp.message = MsgEmailInUse
             /\ ~req'[p].created
             /\ req'[p].sends = 0
             /\ users' = users
             /\ nextId' = nextId
             /\ events' = events]_vars

C3_Witness ==
    \E p \in Slots :
        /\ req[p].op = "register" /\ req[p].pc = "done" /\ req[p].note = "taken"
        /\ Conflicted(p) /\ ~req[p].created /\ req[p].sends = 0
        /\ findOneByEmail(users, req[p].email) # {}

\* C5: once the store create of a register has succeeded, the caller has its
\* response: no register that has created its row is still waiting for the
\* producer's connect or send with the response unsent.
C5_PublishNeverBlocks ==
    \A p \in Slots :
        (req[p].op = "register" /\ req[p].created)
        => req[p].pc \notin {"ev_connecting", "ev_sending"}

\* ----------------------------------------------------- account properties
\* C2: no two rows of the users table have the same email.
C2_EmailUnique ==
    \A r1 \in users, r2 \in users : r1.email = r2.email => r1 = r2

\* an update that asked for another row's email was refused, and both rows
\* are there
C2_Witness ==
    /\ Cardinality(users) = 2
    /\ \E p \in Slots :
          /\ req[p].op = "updateUser" /\ req[p].pc = "done"
          /\ req[p].resp.status = 500

\* the status a handler gives when its store operation succeeded
SuccessStatus(op) ==
    CASE op = "register" -> 201
      [] op = "updateUser" -> 200
      [] OTHER -> 204

\* C4: the step that ends a publish, whether the connect failed, the send
\* failed or the send succeeded, answers the caller with the success
\* response of its operation and leaves the table as it is.
C4_PublishOutcomeInvisible ==
    [][\A p \in Slots :
          (/\ req[p].pc \in {"ev_connecting", "ev_sending"}
           /\ req'[p].pc = "done")
          => /\ req'[p].resp.status = SuccessStatus(req[p].op)
             /\ req'[p].resp.message = MsgNone
             /\ req[p].op = "register" =>
                   /\ req'[p].resp.user.id = req[p].user.id
                   /\ req'[p].resp.user.username = req[p].user.username
                   /\ req'[p].resp.user.email = req[p].user.email
             /\ req[p].op = "updateUser" => req'[p].resp.user = req[p].user
             /\ users' = users]_vars

\* a register answered 201 although the publish failed, and its row is there
C4_Witness ==
    \E p \in Slots :
        /\ req[p].op = "register" /\ req[p].pc = "done"
        /\ req[p].publish \in {"connectFailed", "sendFailed"}
        /\ req[p].resp.status = 201
        /\ \E r \in users : ToStr(r.id) = req[p].resp.user.id

\* ------------------------------------------------------- login properties
\* C6: a login that AuthService.login rejected, for a missing account or for
\* a wrong password, answered 401 'Invalid credentials' with no token and no
\* other body field.
C6_SameRejection ==
    \A p \in Slots :
        (req[p].op = "login" /\ req[p].pc = "done" /\ req[p].note \in {"noUser", "mismatch"})
        => req[p].resp = [status |-> 401, message |-> MsgInvalidCredentials,
                          user |-> NoBodyUser, list |-> {}, token |-> EmptyToken]

\* one login rejected for a missing account, one for a wrong password, with
\* the same response
C6_Witness ==
    \E p \in Slots, q \in Slots :
        /\ req[p].op = "login" /\ req[p].pc = "done" /\ req[p].note = "noUser"
        /\ req[q].op = "login" /\ req[q].pc = "done" /\ req[q].note = "mismatch"
        /\ req[p].resp = req[q].resp
        /\ req[p].resp.status = 401

\* C7: a login that follows a completed password change of its user, with no
\* later change or delete of that user, answers 200 when it presents the new
\* password and 401 when it presents the old one.
C7_PasswordChangeTakesEffect ==
    \A p \in Slots :
        (req[p].op = "login" /\ req[p].pc = "done")
        => /\ req[p].expect = "new" => req[p].resp.status = 200
           /\ req[p].expect = "old" => req[p].resp.status = 401

C9_TokenRoundTrip ==
    /\ trial.verdicts["valid"] # NoVerdict =>
          /\ trial.verdicts["valid"].kind = "return"
          /\ trial.verdicts["valid"].value # Null
          /\ trial.verdicts["valid"].value.userId = trial.verdicts["valid"].subject
    /\ trial.verdicts["expired"] # NoVerdict =>
          /\ trial.verdicts["expired"].kind = "return"
          /\ trial.verdicts["expired"].value = Null

\* a token was verified before its expiry and a token after it
C9_Witness ==
    /\ trial.verdicts["valid"] # NoVerdict
    /\ trial.verdicts["valid"].value.userId = ToStr(1)
    /\ trial.verdicts["expired"] # NoVerdict
    /\ trial.verdicts["expired"].value = Null

\* C10: for the empty string, a garbage string, a token signed with another
\* secret and an expired token, verifyToken returns (it does not throw) the
\* null result, and the middleware answers 401 'Unauthorized' with nothing
\* else in the body.
C10_InvalidTokensAlike ==
    \A c \in {"empty", "garbage", "forged", "expired"} :
        trial.verdicts[c] # NoVerdict =>
            /\ trial.verdicts[c].kind = "return"
            /\ trial.verdicts[c].value = Null
            /\ trial.verdicts[c].response =
                  [status |-> 401, message |-> MsgUnauthorized,
                   user |-> NoBodyUser, list |-> {}, token |-> EmptyToken]

\* all four kinds of invalid token have been tried, with one and the same
\* result
C10_Witness ==
    /\ \A c \in {"empty", "garbage", "forged", "expired"} :
          /\ trial.verdicts[c] # NoVerdict
          /\ trial.verdicts[c].kind = "return"
          /\ trial.verdicts[c].value = trial.verdicts["empty"].value
          /\ trial.verdicts[c].response = trial.verdicts["empty"].response
    /\ trial.verdicts["empty"].response.status = 401

\* ------------------------------------------------ protected route properties
ProtectedOps ==
    {"getAllUsers", "getMe", "updateUserPassword", "getUserById", "updateUser", "deleteUser"}

\* the header is 'Bearer <token>' with a token signed with the service's
\* secret for some user id and not yet expired at clock t
ValidBearer(scheme, token, t) ==
    /\ scheme = "Bearer"
    /\ token.typ = "jwt"
    /\ token.key = thisJwtSecret
    /\ token.userId # <<>>
    /\ t < token.exp

\* C11: a request to a protected route whose header is not a valid Bearer
\* header ends in the step that starts it, with 401 'Unauthorized', and that
\* step changes neither the table nor the records sent nor the producer; only
\* a request with a valid Bearer header goes on to its controller, as the
\* token's subject, and only such a request is ever in a controller.
C11_ProtectedNeedBearer ==
    [][\A p \in Slots :
          /\ (req'[p] # req[p] /\ started' = started + 1 /\ req'[p].op \in ProtectedOps)
             => IF ValidBearer(req'[p].scheme, req'[p].token, now)
                THEN /\ req'[p].userId = req'[p].token.userId
                     /\ req'[p].note # "unauthorized"
                ELSE /\ req'[p].pc = "done"
                     /\ req'[p].resp.status = 401
                     /\ req'[p].resp.message = MsgUnauthorized
                     /\ users' = users /\ nextId' = nextId
                     /\ events' = events
                     /\ producer' = producer /\ producersCreated' = producersCreated
          /\ (req[p].op \in ProtectedOps /\ req[p].pc \notin {"idle", "done"})
             => /\ req[p].scheme = "Bearer"
                /\ req[p].token.typ = "jwt"
                /\ req[p].token.key = thisJwtSecret
                /\ req[p].userId = req[p].token.userId]_vars

\* a delete with a token signed with another secret was turned away, and a
\* row it named is still there
C11_Witness ==
    \E p \in Slots :
        /\ req[p].op = "deleteUser" /\ req[p].pc = "done"
        /\ req[p].scheme = "Bearer" /\ req[p].token.typ = "jwt" /\ req[p].token.key = OtherSecret
        /\ req[p].resp.status = 401 /\ req[p].resp.message = MsgUnauthorized
        /\ req[p].sends = 0
        /\ \E row \in users : ToStr(row.id) = req[p].token.userId

\* C12: a request that presents a token login has returned, before the
\* token's expiry, passes the middleware as the token's subject, whatever
\* logouts, password changes, updates and deletions have happened; and a
\* logout changes nothing but its own response.
C12_TokensStateless ==
    [][\A p \in Slots :
          /\ req'[p].fresh
             => /\ req'[p].userId = req'[p].token.userId
                /\ req'[p].note # "unauthorized"
                /\ ~(req'[p].resp.status = 401 /\ req'[p].resp.message = MsgUnauthorized)
          /\ (req'[p] # req[p] /\ req'[p].op = "logout")
             => /\ req'[p].resp.status = 204
                /\ \A q \in Slots \ {p} : req'[q] = req[q]
                /\ <<users, nextId, now, producer, isProducerConnected, producersCreated,
                      listening, events, issued, pwChange, registered, trial, proc>>'
                   = <<users, nextId, now, producer, isProducerConnected, producersCreated,
                       listening, events, issued, pwChange, registered, trial, proc>>]_vars

\* the token of a user whose row has been deleted still passed the
\* middleware: GET /users/me went on to its controller and found no row
C12_Witness ==
    \E p \in Slots :
        /\ req[p].op = "getMe" /\ req[p].pc = "done" /\ req[p].fresh
        /\ req[p].resp.status = 404
        /\ registered[parseInt(req[p].userId)].deleted

\* ------------------------------------------------------ deletion properties
\* the ids for which a deleteUser has returned true
DeletedIds == {i \in DOMAIN registered : registered[i].deleted}

\* C13: once a deleteUser of an id has returned true, no row has that id in
\* any later state, findUserById of it gives undefined, and a GET /users/:id
\* for it that does its lookup answers 404 'User not found'.
C13_DeleteThenGet ==
    [][\A i \in DeletedIds :
          /\ findByPk(users, i) = {}
          /\ findByPk(users', i) = {}
          /\ findUserById(users', ToStr(i)) = UndefinedUser
          /\ \A p \in Slots :
                (req[p].op = "getUserById" /\ req[p].pc = "get_find"
                 /\ req[p].pathId = ToStr(i) /\ req'[p] # req[p])
                => /\ req'[p].resp.status = 404
                   /\ req'[p].resp.message = MsgNotFound]_vars

\* a GET /users/1 answered 404 after alice's row was deleted and another
\* user had registered with her email since
C13_Witness ==
    /\ registered[1].deleted
    /\ \E row \in users : row.id # 1 /\ row.email = AliceRow.email
    /\ \E p \in Slots :
          /\ req[p].op = "getUserById" /\ req[p].pc = "done" /\ req[p].pathId = ToStr(1)
          /\ req[p].resp.status = 404

\* the UserDeleted records handed to producer.send for user id
DeletedEvents(id) ==
    {e \in BagToSet(events) : e.eventType = "UserDeleted" /\ e.userId = id}

\* C14: a deleteUser whose lookup or whose destroy finds no row answers 404
\* and sends nothing; the destroy of a deleteUser returns true only in the
\* step that removes the row, which no earlier deleteUser of that id has
\* done; of two deleteUser calls for one id in flight together at most one
\* gets true, and the one that gets false after finding the row lost it to a
\* call that got true; at most one UserDeleted record is sent for an id.
C14_DeleteOnce ==
    [][/\ \A p \in Slots :
             (req'[p].op = "deleteUser" /\ req'[p].pc = "done"
              /\ req'[p].note \notin {"deleted", "unauthorized"})
             => /\ req'[p].resp.status = 404
                /\ req'[p].sends = 0
       /\ \A p \in Slots :
             (req'[p].op = "deleteUser" /\ req'[p].note = "deleted" /\ req[p].note # "deleted")
             => /\ findByPk(users, parseInt(req[p].pathId)) # {}
                /\ findByPk(users', parseInt(req[p].pathId)) = {}
                /\ ~registered[parseInt(req[p].pathId)].deleted
       /\ \A p \in Slots :
             (req'[p].op = "deleteUser" /\ req'[p].pc = "done" /\ req'[p].note = "deleted")
             => req'[p].resp.status = 204
       /\ \A p \in Slots :
             (req'[p].op = "deleteUser" /\ req'[p].note = "lost")
             => registered'[parseInt(req'[p].pathId)].deleted
       /\ \A p, q \in Slots :
             (p # q /\ req'[p].op = "deleteUser" /\ req'[q].op = "deleteUser"
              /\ req'[p].pathId = req'[q].pathId)
             => ~(req'[p].note = "deleted" /\ req'[q].note = "deleted")
       /\ \A id \in PathIds :
             /\ Cardinality(DeletedEvents(id)') <= 1
             /\ \A e \in DeletedEvents(id)' : CopiesIn(e, events') = 1]_vars

\* two concurrent deletes of alice's row both found it; one removed it and
\* sent the one UserDeleted record, the other answered 404
C14_Witness ==
    \E p, q \in Slots :
        /\ req[p].op = "deleteUser" /\ req[q].op = "deleteUser"
        /\ req[p].pathId = ToStr(1) /\ req[q].pathId = ToStr(1)
        /\ req[p].pc = "done" /\ req[p].note = "deleted" /\ req[p].resp.status = 204
        /\ req[q].pc = "done" /\ req[q].note = "lost" /\ req[q].resp.status = 404
        /\ Cardinality(DeletedEvents(ToStr(1))) = 1

\* ------------------------------------------------------ producer properties
\* the producers that requests have created and are connecting
Connecting == {req[p].newProducer : p \in {q \in Slots : req[q].pc = "ev_connecting"}}

\* C15: the getKafkaProducer calls that run while no connected producer is
\* cached create and connect one producer between them.
C15_OneProducerOnFirstUse == Cardinality(Connecting) <= 1

\* C16: the 'producer.disconnect' callback leaves the cache empty (producer
\* null, isProducerConnected false), and a publish that starts while the cache
\* is empty hands nothing to producer.send at that step: it creates a
\* producer that did not exist before and starts its connect.
C16_DisconnectClearsCache ==
    [][/\ listening' # listening /\ listening' \subseteq listening
          => producer' = 0 /\ ~isProducerConnected'
       /\ \A p \in Slots :
             (req[p].pc = "ev_get" /\ req'[p] # req[p] /\ ~(producer # 0 /\ isProducerConnected))
             => /\ req'[p].pc = "ev_connecting"
                /\ req'[p].newProducer \notin 0..producersCreated
                /\ req'[p].newProducer = producersCreated'
                /\ req'[p].sends = req[p].sends
                /\ events' = events]_vars

\* the producer of the start has disconnected, the cache is empty, and a
\* publish is connecting a second producer
C16_Witness ==
    /\ 1 \notin listening
    /\ producer = 0 /\ ~isProducerConnected
    /\ \E p \in Slots : req[p].pc = "ev_connecting" /\ req[p].newProducer = 2


\* ----------------------------------------------------------------- producer
\* Behaviours of the cached producer: clients register, concurrently, while
\* the bus may fail and its producers may disconnect, until a signal shuts
\* the process down and disconnectProducer runs.
NextProducer ==
    \/ Accepting /\ \E p \in Slots, e \in Emails : RegisterStart(p, "bob", e, "pw1")
    \/ Running /\ \E p \in Slots : RegisterFind(p)
    \/ Running /\ \E p \in Slots : RegisterHash(p, "saltA")
    \/ Running /\ \E p \in Slots : RegisterCreate(p)
    \/ Running /\ \E p \in Slots : PublishStart(p)
    \/ Running /\ \E p \in Slots : ConnectOk(p)
    \/ Running /\ \E p \in Slots : ConnectFail(p)
    \/ Running /\ \E p \in Slots : SendOk(p)
    \/ Running /\ \E p \in Slots : SendFail(p)
    \/ Running /\ \E q \in 1..MaxProducers : OnProducerDisconnect(q)
    \/ Shutdown
    \/ ServerClosed
    \/ GracefulExit

SpecProducer == Init /\ [][NextProducer]_vars

\* ------------------------------------------------------- process properties
\* no lifecycle event has been handed to sendUserEvent
NoPublishYet ==
    /\ events = EmptyBag
    /\ \A p \in Slots : req[p].sends = 0 /\ req[p].pc \notin {"ev_get", "ev_connecting", "ev_sending"}

\* the secret is a string with something other than whitespace in it
SecretUsable == proc.env.defined /\ Trim(proc.env.chars) # <<>>

\* C17: before the first publish of a lifecycle event no producer has been
\* created or connected, and a process that exits without having been
\* signalled does so for its secret, never for the bus.
C17_LazyProducer ==
    /\ NoPublishYet => producersCreated = 0 /\ producer = 0
    /\ (proc.phase = "exited" /\ proc.signals = 0) => ~SecretUsable

\* C18: once signalled, the process calls disconnectProducer only when the
\* server has closed, with no request in a handler; its exit code is 0 only
\* after the server closed and the producer was stopped; and it exits
\* eventually, by the close callback or by the timer.
C18_ShutdownExits ==
    /\ [](proc.signals > 0 =>
            /\ proc.producerStop # "none"
               => /\ proc.server = "closed"
                  /\ \A p \in Slots : req[p].pc \in {"idle", "done"}
            /\ (proc.phase = "exited" /\ proc.exitCode = 0)
               => proc.server = "closed" /\ producer = 0 /\ ~isProducerConnected
            /\ proc.phase = "exited" => proc.exitCode \in {0, 1}
            /\ proc.deadline = -1 \/ now <= proc.deadline)
    /\ (proc.signals > 0) ~> (proc.phase = "exited")

\* the forced exit: the server was still closing, with a login in its
\* handler, when the timer fired
C18_Witness ==
    /\ proc.phase = "exited" /\ proc.exitCode = 1 /\ proc.signals > 0
    /\ proc.server = "closing" /\ proc.producerStop = "none"
    /\ now = proc.deadline
    /\ \E p \in Slots : req[p].pc = "login_compare"

\* C19: the server listens, a request is handled and a token is signed only
\* in a process whose secret is usable, and every token is signed with that
\* secret; a process whose secret is not set, empty or all whitespace gets no
\* further than its start and exits with code 1.
C19_SecretRequired ==
    /\ (proc.server # "none" \/ started > 0 \/ issued # {}) => SecretUsable
    /\ \A t \in issued : t.key = proc.env.chars /\ t.key # <<>>
    /\ ~SecretUsable
       => /\ proc.phase \in {"boot", "kafka", "failing", "exited"}
          /\ proc.phase = "exited" => proc.exitCode = 1

\* the process whose secret is all whitespace passed the check of index.ts,
\* connected its producer, and exited from the catch of startServer
C19_Witness ==
    /\ proc.env = EnvString(<<" ", " ">>)
    /\ proc.phase = "exited" /\ proc.exitCode = 1
    /\ proc.server = "none" /\ proc.producerStop = "done"
    /\ started = 0 /\ issued = {}

\* ------------------------------------------------- response body properties
\* C20: no response body carries a password hash: neither the user record of
\* a response nor any record of a list response has a passwordhash field.
C20_NoHashInBody ==
    \A p \in Slots :
        /\ req[p].resp.user.passwordhash = NoHashField
        /\ \A u \in req[p].resp.list : u.passwordhash = NoHashField

\* ------------------------------------------------------- update properties
\* C21: a step of UserRepository.updateUser changes, of the row of its id,
\* only fields the call supplied: a username, email or passwordhash that was
\* not supplied, the id and createdAt are as before; and every row of another
\* id is as before, none added and none removed.
C21_UpdateFrame ==
    [][\A p \in Slots :
          (req[p].pc = "upd_write" /\ req'[p] # req[p]) =>
              LET r == req[p]
                  id == parseInt(r.pathId)
              IN  /\ \A x \in users : x.id # id => x \in users'
                  /\ \A y \in users' : y.id # id => y \in users
                  /\ \A y \in users' : y.id = id => \E x \in users : x.id = id
                  /\ \A x \in users : x.id = id =>
                        \E y \in users' :
                            /\ y.id = x.id
                            /\ y.createdAt = x.createdAt
                            /\ (r.username = Absent => y.username = x.username)
                            /\ (r.email = Absent => y.email = x.email)
                            /\ (r.hashed = NoHashField => y.passwordhash = x.passwordhash)]_vars

\* an update of bob's username alone has written his row, alice's row as it was
C21_Witness ==
    /\ \E p \in Slots : req[p].op = "updateUser" /\ req[p].note = "wrote" /\ req[p].pathId = ToStr(2)
    /\ AliceRow \in users
    /\ [BobRow EXCEPT !.username = "carol", !.updatedAt = 2] \in users

\* C22: a step of UserRepository.updateUser that was supplied none of the
\* three fields writes nothing to the store, and returns the record the
\* store holds for the id as it is, updatedAt included, or undefined (the
\* controller's 404) when the store holds none.
C22_NoFieldsNoWrite ==
    [][\A p \in Slots :
          (req[p].pc = "upd_write" /\ req'[p] # req[p] /\ parseInt(req[p].pathId) # NaN
           /\ req[p].username = Absent /\ req[p].email = Absent /\ req[p].hashed = NoHashField) =>
              LET rows == findByPk(users, parseInt(req[p].pathId))
                  returned == IF req'[p].pc = "done" THEN req'[p].resp.user ELSE req'[p].user
              IN  /\ users' = users
                  /\ req'[p].note # "wrote"
                  /\ IF rows = {}
                     THEN req'[p].pc = "done" /\ req'[p].resp.status = 404
                     ELSE \E row \in rows : returned = toExternalUser(row)]_vars

\* an update with no field has returned bob's record as an earlier update of
\* his email had written it
C22_Witness ==
    \E p, q \in Slots :
        /\ req[p].op = "updateUser" /\ req[p].pc = "ev_get" /\ req[p].note = ""
        /\ req[p].username = Absent /\ req[p].email = Absent /\ req[p].hashed = NoHashField
        /\ req[p].user = toExternalUser([BobRow EXCEPT !.email = "c@x.com", !.updatedAt = 2])
        /\ req[q].op = "updateUser" /\ req[q].note = "wrote"

\* C23: a password change whose subject has no record (it was deleted after
\* the token was issued) writes nothing to the store, hands no event to the
\* producer, and answers 404 'User not found'.
C23_PasswordChangeOfDeleted ==
    [][\A p \in Slots :
          (req[p].op = "updateUserPassword" /\ req[p].pc \in {"upd_write", "upd_reread"}
           /\ req'[p] # req[p] /\ req[p].note # "wrote"
           /\ findByPk(users, parseInt(req[p].pathId)) = {}) =>
              /\ users' = users
              /\ events' = events
              /\ req'[p].sends = 0
              /\ req'[p].note # "wrote"
              /\ (req[p].pc = "upd_write" => req'[p].pc = "upd_reread")
              /\ (req[p].pc = "upd_reread" =>
                    /\ req'[p].pc = "done"
                    /\ req'[p].resp.status = 404
                    /\ req'[p].resp.message = MsgNotFound)]_vars

\* alice's record was deleted, and her password change has answered 404
C23_Witness ==
    \E p, q \in Slots :
        /\ req[q].op = "deleteUser" /\ req[q].note = "deleted" /\ req[q].pathId = ToStr(1)
        /\ req[p].op = "updateUserPassword" /\ req[p].pc = "done" /\ req[p].userId = ToStr(1)
        /\ req[p].resp.status = 404 /\ req[p].note = "" /\ req[p].sends = 0
        /\ findByPk(users, 1) = {}

\* ------------------------------------------------------ publish properties
\* C24: a request hands its lifecycle event to producer.send at most once:
\* every step adds at most one record to the sent events, the one of a request
\* that had sent none, and the step that ends a send, resolved or rejected,
\* ends the request with that one attempt and sends nothing.
C24_OneSendAttempt ==
    [][/\ \A p \in Slots : req'[p].sends <= 1
       /\ BagCardinality(events') <= BagCardinality(events) + 1
       /\ (events' # events =>
             \E p \in Slots :
                 /\ req[p].sends = 0 /\ req'[p].sends = 1
                 /\ events' = events (+) SetToBag({EventOf(req[p])})
                 /\ \A q \in Slots \ {p} : req'[q] = req[q])
       /\ \A p \in Slots :
             (req[p].pc = "ev_sending" /\ req'[p] # req[p]) =>
                 /\ req'[p].pc = "done"
                 /\ req'[p].sends = 1
                 /\ req'[p].publish \in {"sent", "sendFailed"}
                 /\ events' = events]_vars

\* a delete whose one send was rejected has answered 204
C24_Witness ==
    \E p \in Slots :
        /\ req[p].pc = "done" /\ req[p].publish = "sendFailed" /\ req[p].sends = 1
        /\ req[p].op = "deleteUser" /\ req[p].resp.status = 204

\* C25: every event handed to the producer follows a completed store
\* transition of its kind by the request that sends it: UserCreated a create
\* of the row, UserUpdated an update that wrote the row, UserDeleted a delete
\* that removed it, and the event carries that row's id.
C25_EventsFollowTransitions ==
    [][\A p \in Slots :
          (req'[p].sends = req[p].sends + 1) =>
              LET e == EventOf(req[p])
              IN  /\ events' = events (+) SetToBag({e})
                  /\ (e.eventType = "UserCreated" => req[p].created)
                  /\ (e.eventType = "UserUpdated" =>
                        req[p].note = "wrote" /\ parseInt(e.userId) = parseInt(req[p].pathId))
                  /\ (e.eventType = "UserDeleted" =>
                        req[p].note = "deleted" /\ parseInt(e.userId) = parseInt(req[p].pathId))]_vars

\* C26: deleteUser takes its snapshot of the record while the store still
\* holds it, keeps the snapshot over the store delete, and hands the producer,
\* once the row is gone, a UserDeleted event with the id of the path and the
\* username and email of the snapshot.
C26_DeletedEventFromSnapshot ==
    [][\A p \in Slots :
          (req[p].op = "deleteUser" /\ req'[p] # req[p]) =>
              LET id == parseInt(req[p].pathId)
              IN  /\ (req[p].pc = "del_find" /\ req'[p].pc = "del_destroy") =>
                        /\ \E row \in findByPk(users, id) : req'[p].user = toExternalUser(row)
                        /\ users' = users
                        /\ events' = events
                  /\ req[p].pc = "del_destroy" =>
                        /\ findByPk(users', id) = {}
                        /\ events' = events
                        /\ req'[p].pc = "ev_get" => req'[p].user = req[p].user
                        /\ req'[p].pc # "ev_get" => req'[p].pc = "done" /\ req'[p].sends = 0
                  /\ req'[p].sends = req[p].sends + 1 =>
                        /\ req[p].note = "deleted"
                        /\ findByPk(users, id) = {}
                        /\ events' = events (+) SetToBag({UserEvent("UserDeleted", req[p].pathId,
                                                                    req[p].user.username,
                                                                    req[p].user.email)})]_vars

\* alice's client has deleted bob, and the UserDeleted event of id 2 with
\* bob's username and email was sent
C26_Witness ==
    /\ \E p \in Slots : /\ req[p].op = "deleteUser" /\ req[p].pc = "done"
                        /\ req[p].userId = ToStr(1) /\ req[p].pathId = ToStr(2)
                        /\ req[p].publish = "sent" /\ req[p].resp.status = 204
    /\ BagIn(UserEvent("UserDeleted", ToStr(2), "bob", "b@x.com"), events)
    /\ findByPk(users, 2) = {}

\* ----------------------------------------------------- producer properties
\* C27: between the steps of getKafkaProducer, disconnectProducer and the
\* 'producer.disconnect' callback, isProducerConnected is true exactly when a
\* producer is cached.
C27_FlagIffCached == isProducerConnected <=> (producer # 0)

\* a second producer is cached and connected while the first, replaced one
\* is still connected, and the process awaits producer.disconnect in
\* disconnectProducer
C27_Witness ==
    /\ producer = 2 /\ isProducerConnected /\ listening = {1, 2}
    /\ proc.phase = "disconnecting" /\ proc.producerStop = "pending"

\* C28: the cache of a connected producer goes back to absent only in a step
\* of disconnectProducer or in the 'producer.disconnect' callback of the
\* cached producer itself.
C28_CacheClearedByOwner ==
    [][(producer # 0 /\ isProducerConnected /\ producer' = 0) =>
          \/ proc.producerStop = "pending" /\ proc'.producerStop = "done"
          \/ producer \in listening /\ listening' = listening \ {producer}]_vars

\* ----------------------------------------------------- password properties
\* C29: the passwordhash of every row of the store is an output of
\* bcrypt.hash, with the service's salt rounds, for a password a request
\* supplied.
C29_StoredHashesAreBcrypt ==
    \A row \in users :
        /\ row.passwordhash.alg = "bcrypt"
        /\ row.passwordhash.cost = SaltRounds
        /\ row.passwordhash.text \in Passwords

\* ------------------------------------------------ authorization properties
\* C30: PUT /users/:id and DELETE /users/:id check the token and nothing
\* else: a request with a valid Bearer token goes on to the store as the
\* token's subject, whatever the id of its path, and one without answers 401;
\* the update then writes the row of the path's id, and the delete removes
\* it, whether or not that id is the subject's.
C30_AnySubjectMayChange ==
    [][\A p \in Slots :
          (req'[p] # req[p] /\ req'[p].op \in {"updateUser", "deleteUser"}) =>
              LET r == req[p]
                  rows == findByPk(users, parseInt(r.pathId))
              IN  /\ r.pc \in {"idle", "done"} =>
                        IF ValidBearer(req'[p].scheme, req'[p].token, now)
                        THEN /\ req'[p].pc = IF req'[p].op = "updateUser" THEN "upd_write"
                                             ELSE "del_find"
                             /\ req'[p].userId = req'[p].token.userId
                        ELSE /\ req'[p].pc = "done"
                             /\ req'[p].resp.status = 401
                  /\ (r.pc = "upd_write" /\ rows # {} /\ hasUpdates(r)
                      /\ ~(r.email # Absent /\ ViolatesUnique(users, parseInt(r.pathId), r.email))) =>
                        /\ req'[p].note = "wrote"
                        /\ \E row \in rows : users' = (users \ {row}) \cup {Updated(row, r, now)}
                  /\ (r.pc = "del_find" /\ rows # {}) => req'[p].pc = "del_destroy"
                  /\ (r.pc = "del_destroy" /\ rows # {}) =>
                        /\ req'[p].note = "deleted"
                        /\ users' = users \ rows]_vars

\* with alice's token, one request has renamed bob and another has deleted him
C30_Witness ==
    \E p, q \in Slots :
        /\ req[p].op = "updateUser" /\ req[p].userId = ToStr(1) /\ req[p].pathId = ToStr(2)
        /\ req[p].note = "wrote"
        /\ req[q].op = "deleteUser" /\ req[q].userId = ToStr(1) /\ req[q].pathId = ToStr(2)
        /\ req[q].note = "deleted"
        /\ findByPk(users, 2) = {}

====
